---- MODULE Spec2Model ----
(***************************************************************************)
(* A model of extraction.py: the Name Normalizer (clean_name), the Region  *)
(* Extractor (extract_amenities_for_place) and the Batch Driver            *)
(* (extract_for_provinces).                                                *)
(*                                                                         *)
(* Python strings are sequences of one-character strings, so that          *)
(* replace, strip and split act on characters as they do in the code.      *)
(***************************************************************************)
EXTENDS Integers, Sequences, FiniteSets, TLC

VARIABLES
    provinces_list,     \* extract_for_provinces: the regions, in input order
    tags_dict,          \* the category specification: (key, values) in order
    output_root_folder, \* extract_for_provinces: the root output location
    disk,               \* whether writes to the output location may fail
    i,                  \* extract_for_provinces: position of the for loop
    attempted,          \* history: the regions handed to the extractor so far
    place_name,         \* extract_amenities_for_place: its first argument
    output_folder,      \* extract_amenities_for_place: its third argument
    query_place,        \* the whitespace-normalized query key
    gdf_all,            \* the collection as the pipeline narrows it
    place_short,        \* the base name of the files
    t,                  \* position of the loop over tags_dict.items()
    subset,             \* the Subset of the current category
    retrieved,          \* history: what features_from_place returned
    pre_filter,         \* history: the collection before the geometry filter
    pre_dedup,          \* history: the collection before drop_duplicates
    writes,             \* history: the writes of the current extractor call
    dirs,               \* the directories os.makedirs has created
    result,             \* what the current extractor call returned
    exc,                \* the exception that left extract_for_provinces
    name_in,            \* the argument of a stand-alone clean_name call
    name_out,           \* clean_name(name_in)
    name_twice,         \* clean_name(clean_name(name_in))
    pc                  \* position of the running call

\* ---------------------------------------------------------------- bounds

\* Longest string handed to a stand-alone clean_name call.
MaxLen == 4

\* Most records the feature source returns for the region "Testville".
MaxRecs == 2

\* Most records the feature source returns for any other region.
MaxBatchRecs == 1

\* Longest list of regions handed to extract_for_provinces.
MaxRegions == 2

\* ---------------------------------------------------------------- strings

\* Characters str.strip() and str.split() treat as whitespace (space, tab).
Whitespace == {" ", "\t"}

\* The characters names are drawn from.
Alphabet == {"a", "_", ",", "/", " ", "\t"}

RECURSIVE StringsUpTo(_)
StringsUpTo(n) ==
    IF n = 0 THEN {<<>>}
    ELSE LET shorter == StringsUpTo(n - 1)
         IN  shorter \cup {Append(s, c) : s \in shorter, c \in Alphabet}

\* str.replace(old, new): every non-overlapping occurrence, leftmost first.
RECURSIVE str_replace(_, _, _)
str_replace(s, old, new) ==
    IF Len(s) < Len(old) THEN s
    ELSE IF SubSeq(s, 1, Len(old)) = old
         THEN new \o str_replace(SubSeq(s, Len(old) + 1, Len(s)), old, new)
         ELSE <<Head(s)>> \o str_replace(Tail(s), old, new)

RECURSIVE str_lstrip(_)
str_lstrip(s) ==
    IF s # <<>> /\ Head(s) \in Whitespace THEN str_lstrip(Tail(s)) ELSE s

RECURSIVE str_rstrip(_)
str_rstrip(s) ==
    IF s # <<>> /\ s[Len(s)] \in Whitespace
    THEN str_rstrip(SubSeq(s, 1, Len(s) - 1))
    ELSE s

\* str.strip(): leading and trailing whitespace removed.
str_strip(s) == str_rstrip(str_lstrip(s))

\* clean_name without the comma removal.
clean_name_keeps_commas(s) ==
    str_replace(str_strip(str_replace(s, <<"/">>, <<"_">>)), <<" ">>, <<"_">>)

\* s.replace(",", "").replace("/", "_").strip().replace(" ", "_")
clean_name(s) ==
    str_replace(
        str_strip(str_replace(str_replace(s, <<",">>, <<>>), <<"/">>, <<"_">>)),
        <<" ">>, <<"_">>)

\* " ".join(s.split()) on a stripped string: every run of whitespace
\* becomes one space.
RECURSIVE collapse_whitespace(_)
collapse_whitespace(s) ==
    IF s = <<>> THEN <<>>
    ELSE IF Head(s) \in Whitespace
         THEN IF Tail(s) # <<>> /\ Head(Tail(s)) \in Whitespace
              THEN collapse_whitespace(Tail(s))
              ELSE <<" ">> \o collapse_whitespace(Tail(s))
         ELSE <<Head(s)>> \o collapse_whitespace(Tail(s))

\* " ".join(place_name.strip().split())
normalize_spaces(s) == collapse_whitespace(str_strip(s))

\* os.path.join(a, b) on a POSIX system.
path_join(a, b) ==
    IF b # <<>> /\ Head(b) = "/" THEN b
    ELSE IF a = <<>> \/ a[Len(a)] = "/" THEN a \o b
    ELSE a \o <<"/">> \o b

\* ---------------------------------------------------------------- names

S_geometry == <<"g", "e", "o", "m", "e", "t", "r", "y">>
S_osmid == <<"o", "s", "m", "i", "d">>
S_amenity == <<"a", "m", "e", "n", "i", "t", "y">>
S_shop == <<"s", "h", "o", "p">>
S_latitude == <<"l", "a", "t", "i", "t", "u", "d", "e">>
S_longitude == <<"l", "o", "n", "g", "i", "t", "u", "d", "e">>
S_all_amenities_geojson ==
    <<"_", "a", "l", "l", "_", "a", "m", "e", "n", "i", "t", "i", "e", "s",
      ".", "g", "e", "o", "j", "s", "o", "n">>
S_geojson == <<".", "g", "e", "o", "j", "s", "o", "n">>
S_csv == <<".", "c", "s", "v">>

Testville == <<"T", "e", "s", "t", "v", "i", "l", "l", "e">>
CalgaryAlberta ==
    <<"C", "a", "l", "g", "a", "r", "y", ",", " ", "A", "l", "b", "e", "r", "t", "a">>
TwoBlanks == <<"A", " ", " ", "B">>
SlashName == <<" ", "a", "/", "b", ".", "g", "e", "o", "j", "s", "o", "n">>
DefaultRoot ==
    <<"o", "s", "m", "_", "h", "e", "l", "p", "e", "r", "_", "d", "a", "t", "a">>
CommaRoot == <<"o", "u", "t", ",", "1">>

\* ---------------------------------------------------------- collections

\* A collection (GeoDataFrame): its columns, its rows in order, its CRS.
\* A row carries its index label and one cell per column the model knows;
\* the cell of a column the collection lacks is "None", 0 or "NaN".
NoFrame == [columns |-> {}, rows |-> <<>>, crs |-> "none"]

GeomValues(place) ==
    IF place = Testville THEN {"Point", "Polygon", "None"} ELSE {"Point", "Polygon"}
OsmIds == {1, 2}
AmenityValues(place) ==
    IF place = Testville THEN {"cafe", "bar", "NaN"} ELSE {"cafe", "NaN"}
ShopValues == {"bakery", "NaN"}

CellsFor(place, cols) ==
    [geometry : IF S_geometry \in cols THEN GeomValues(place) ELSE {"None"},
     osmid    : IF S_osmid \in cols THEN OsmIds ELSE {0},
     amenity  : IF S_amenity \in cols THEN AmenityValues(place) ELSE {"NaN"},
     shop     : IF S_shop \in cols THEN ShopValues ELSE {"NaN"}]

RECURSIVE CellSeqsUpTo(_, _)
CellSeqsUpTo(n, cells) ==
    IF n = 0 THEN {<<>>}
    ELSE LET shorter == CellSeqsUpTo(n - 1, cells)
         IN  shorter \cup {Append(s, c) : s \in shorter, c \in cells}

MakeRow(k, c) ==
    [index |-> k, geometry |-> c.geometry, osmid |-> c.osmid,
     amenity |-> c.amenity, shop |-> c.shop]

MakeFrame(cols, cells) ==
    [columns |-> cols,
     rows    |-> [k \in 1..Len(cells) |-> MakeRow(k, cells[k])],
     crs     |-> "EPSG:4326"]

FramesUpTo(n, place, colsets) ==
    UNION {{MakeFrame(cols, cells) : cells \in CellSeqsUpTo(n, CellsFor(place, cols))} :
              cols \in colsets}

\* Scenario A: three point records, identifiers 1, 1, 2 and amenity values
\* "cafe", null, "cafe".
ScenarioA ==
    MakeFrame({S_geometry, S_osmid, S_amenity},
        <<[geometry |-> "Point", osmid |-> 1, amenity |-> "cafe", shop |-> "NaN"],
          [geometry |-> "Point", osmid |-> 1, amenity |-> "NaN", shop |-> "NaN"],
          [geometry |-> "Point", osmid |-> 2, amenity |-> "cafe", shop |-> "NaN"]>>)

\* What ox.features_from_place may return for a place: for "Testville" any
\* collection over the columns geometry, osmid and amenity, and scenario A;
\* for any other place a short collection of points and polygons that
\* carries both category columns.
SourceFrames(place) ==
    IF place = Testville
    THEN FramesUpTo(MaxRecs, place, SUBSET {S_geometry, S_osmid, S_amenity})
            \cup {ScenarioA}
    ELSE FramesUpTo(MaxBatchRecs, place, {{S_geometry, S_amenity, S_shop}})

\* What a call of ox.features_from_place that does not raise may return.
QueryReturns(place) == {NoFrame} \cup SourceFrames(place)

\* The test of line 31 with the emptiness check left out.
no_features_none_only(gdf) == gdf = NoFrame

\* Line 31: gdf_all is None or gdf_all.empty
no_features(gdf) == gdf = NoFrame \/ gdf.rows = <<>>

\* The cell of a row in a category column.
Cell(row, key) ==
    IF key = S_amenity THEN row.amenity
    ELSE IF key = S_shop THEN row.shop
    ELSE "NaN"

\* gdf[mask]: the rows the mask keeps, in order, with their index labels.
Keep(gdf, Mask(_)) == [gdf EXCEPT !.rows = SelectSeq(gdf.rows, Mask)]

HasPoint(gdf) == \E k \in 1..Len(gdf.rows) : gdf.rows[k].geometry = "Point"

\* gdf_all.to_crs(epsg=4326)
to_crs(gdf) == [gdf EXCEPT !.crs = "EPSG:4326"]

\* Lines 42-51: keep the points when there is one.
geometry_filter(gdf) ==
    IF S_geometry \in gdf.columns /\ HasPoint(gdf)
    THEN Keep(gdf, LAMBDA r : r.geometry = "Point")
    ELSE gdf

\* Line 56: the rows whose geometry is not null.
drop_null_geometry(gdf) ==
    IF S_geometry \in gdf.columns
    THEN Keep(gdf, LAMBDA r : r.geometry # "None")
    ELSE gdf

\* Lines 57-58: GeoSeries.y and GeoSeries.x raise ValueError unless every
\* geometry is a point.
coordinates_raise(gdf) ==
    /\ S_geometry \in gdf.columns
    /\ \E k \in 1..Len(gdf.rows) : gdf.rows[k].geometry # "Point"

add_coordinates(gdf) ==
    IF S_geometry \in gdf.columns
    THEN [gdf EXCEPT !.columns = @ \cup {S_latitude, S_longitude}]
    ELSE gdf

\* drop_duplicates that keeps the last row of each identifier.
drop_duplicates_keep_last(gdf) ==
    IF S_osmid \in gdf.columns
    THEN [gdf EXCEPT !.rows =
            LET rs == gdf.rows
                first(k) == \A j \in (k + 1)..Len(rs) : rs[j].osmid # rs[k].osmid
                RECURSIVE pick(_)
                pick(k) == IF k > Len(rs) THEN <<>>
                           ELSE (IF first(k) THEN <<rs[k]>> ELSE <<>>) \o pick(k + 1)
            IN  pick(1)]
    ELSE gdf

\* Lines 61-63: drop_duplicates(subset='osmid') keeps the first row of each
\* identifier, in order; without the column nothing is dropped.
drop_duplicates(gdf) ==
    IF S_osmid \in gdf.columns
    THEN [gdf EXCEPT !.rows =
            LET rs == gdf.rows
                first(k) == \A j \in 1..(k - 1) : rs[j].osmid # rs[k].osmid
                RECURSIVE pick(_)
                pick(k) == IF k > Len(rs) THEN <<>>
                           ELSE (IF first(k) THEN <<rs[k]>> ELSE <<>>) \o pick(k + 1)
            IN  pick(1)]
    ELSE gdf

\* gdf.drop(columns='geometry', errors='ignore'): the tabular form.
drop_geometry(gdf) ==
    [gdf EXCEPT !.columns = @ \ {S_geometry},
                !.rows = [k \in 1..Len(gdf.rows) |->
                             [gdf.rows[k] EXCEPT !.geometry = "None"]]]

\* ------------------------------------------------------------ selectors

\* A selector: its Python type and its content.
SelBool(b) == [type |-> "bool", flag |-> b, items |-> <<>>]
SelStr(v) == [type |-> "str", flag |-> FALSE, items |-> <<v>>]
SelList(vs) == [type |-> "list", flag |-> FALSE, items |-> vs]
SelTuple(vs) == [type |-> "tuple", flag |-> FALSE, items |-> vs]

InItems(v, items) == \E k \in 1..Len(items) : items[k] = v

\* The selection with a string selector read as "any value".
select_subset_any(gdf, key, values) ==
    IF values.type \in {"bool", "str"}
    THEN Keep(gdf, LAMBDA r : Cell(r, key) # "NaN")
    ELSE IF values.type \in {"list", "tuple"}
    THEN Keep(gdf, LAMBDA r : InItems(Cell(r, key), values.items))
    ELSE [gdf EXCEPT !.rows = <<>>]

\* Lines 92-99: the Subset of a category whose column is present.
select_subset(gdf, key, values) ==
    IF values.type = "bool" /\ values.flag
    THEN Keep(gdf, LAMBDA r : Cell(r, key) # "NaN")
    ELSE IF values.type = "str"
    THEN Keep(gdf, LAMBDA r : Cell(r, key) = values.items[1])
    ELSE IF values.type \in {"list", "tuple"}
    THEN Keep(gdf, LAMBDA r : InItems(Cell(r, key), values.items))
    ELSE [gdf EXCEPT !.rows = <<>>]

\* The category specifications of the runs on "Testville".
DataTags ==
    {<<[key |-> S_amenity, values |-> SelBool(TRUE)]>>,
     <<[key |-> S_amenity, values |-> SelStr("cafe")]>>,
     <<[key |-> S_amenity, values |-> SelList(<<"cafe", "bar">>)]>>,
     <<[key |-> S_amenity, values |-> SelBool(FALSE)]>>,
     <<[key |-> S_shop, values |-> SelBool(TRUE)],
       [key |-> S_amenity, values |-> SelTuple(<<"bar">>)]>>}

\* The category specification of the runs on lists of regions.
BatchTags ==
    {<<[key |-> S_amenity, values |-> SelBool(TRUE)],
       [key |-> S_shop, values |-> SelStr("bakery")]>>}

RECURSIVE ListsUpTo(_, _)
ListsUpTo(n, S) ==
    IF n = 0 THEN {<<>>}
    ELSE LET shorter == ListsUpTo(n - 1, S)
         IN  shorter \cup {Append(l, x) : l \in shorter, x \in S}

\* The calls of extract_for_provinces the model starts from: one region and
\* any collection on a disk that takes every write; lists of regions, or a
\* root with a comma, and short collections on a disk where any write may
\* fail.
Runs ==
    [provinces : {<<Testville>>}, tags : DataTags, root : {DefaultRoot},
     disk : {"healthy"}]
    \cup
    [provinces : ListsUpTo(MaxRegions, {CalgaryAlberta, TwoBlanks}), tags : BatchTags,
     root : {DefaultRoot}, disk : {"failing"}]
    \cup
    [provinces : {<<SlashName>>}, tags : BatchTags, root : {CommaRoot},
     disk : {"failing"}]

\* Whether a write succeeds.
WriteOutcomes == IF disk = "failing" THEN BOOLEAN ELSE {TRUE}

vars ==
    <<provinces_list, tags_dict, output_root_folder, disk, i, attempted, place_name,
      output_folder, query_place, gdf_all, place_short, t, subset, retrieved,
      pre_filter, pre_dedup, writes, dirs, result, exc,
      name_in, name_out, name_twice, pc>>

pipeline_vars ==
    <<provinces_list, tags_dict, output_root_folder, disk, i, attempted, place_name,
      output_folder, query_place, gdf_all, place_short, t, subset, retrieved,
      pre_filter, pre_dedup, writes, dirs, result, exc>>

\* -------------------------------------------------------------- results

Pending == [kind |-> "pending", frame |-> NoFrame]
ReturnedNone == [kind |-> "None", frame |-> NoFrame]
Returned(gdf) == [kind |-> "frame", frame |-> gdf]

driver_vars == <<provinces_list, tags_dict, output_root_folder, disk>>
normalizer_vars == <<name_in, name_out, name_twice>>
history_vars == <<retrieved, pre_filter, pre_dedup>>

\* --------------------------------------------------- extract_for_provinces

Init ==
    /\ \E run \in Runs :
          /\ provinces_list = run.provinces
          /\ tags_dict = run.tags
          /\ output_root_folder = run.root
          /\ disk = run.disk
    /\ i = 1
    /\ attempted = <<>>
    /\ place_name = <<>>
    /\ output_folder = <<>>
    /\ query_place = <<>>
    /\ gdf_all = NoFrame
    /\ place_short = <<>>
    /\ t = 1
    /\ subset = NoFrame
    /\ retrieved = NoFrame
    /\ pre_filter = NoFrame
    /\ pre_dedup = NoFrame
    /\ writes = <<>>
    /\ dirs = {}
    /\ result = Pending
    /\ exc = "none"
    /\ name_in = <<>>
    /\ name_out = <<>>
    /\ name_twice = <<>>
    /\ pc = "for_prov"

\* Lines 126-130: the next region is handed to the extractor, with the
\* folder derived from its cleaned name.
CallExtractor ==
    /\ pc = "for_prov"
    /\ i <= Len(provinces_list)
    /\ LET prov == provinces_list[i]
           prov_clean == clean_name(prov)
           folder == path_join(output_root_folder, prov_clean)
       IN  /\ place_name' = prov
           /\ output_folder' = folder
           /\ attempted' = Append(attempted, prov)
    /\ query_place' = <<>>
    /\ gdf_all' = NoFrame
    /\ place_short' = <<>>
    /\ t' = 1
    /\ subset' = NoFrame
    /\ retrieved' = NoFrame
    /\ pre_filter' = NoFrame
    /\ pre_dedup' = NoFrame
    /\ writes' = <<>>
    /\ result' = Pending
    /\ pc' = "makedirs"
    /\ UNCHANGED <<driver_vars, normalizer_vars, i, dirs, exc>>

\* Line 126: the list is exhausted.
DriverDone ==
    /\ pc = "for_prov"
    /\ i > Len(provinces_list)
    /\ pc' = "done"
    /\ UNCHANGED <<driver_vars, normalizer_vars, history_vars, i, attempted,
                   place_name, output_folder, query_place, gdf_all, place_short,
                   t, subset, writes, dirs, result, exc>>

\* The extractor returns and the for loop moves on.
ReturnToDriver(value) ==
    /\ result' = value
    /\ i' = i + 1
    /\ pc' = "for_prov"

\* ---------------------------------------------- extract_amenities_for_place

\* Lines 18-22: the folder is created and the query key normalized.
MakedirsOk ==
    /\ pc = "makedirs"
    /\ output_folder' = str_replace(output_folder, <<",">>, <<>>)
    /\ dirs' = dirs \cup {output_folder'}
    /\ query_place' = normalize_spaces(place_name)
    /\ pc' = "query"
    /\ UNCHANGED <<driver_vars, normalizer_vars, history_vars, i, attempted,
                   place_name, gdf_all, place_short, t, subset, writes, result, exc>>

\* Line 19: os.makedirs raises; nothing up to the top level catches it.
MakedirsRaises ==
    /\ pc = "makedirs"
    /\ output_folder' = str_replace(output_folder, <<",">>, <<>>)
    /\ exc' = "OSError"
    /\ pc' = "raised"
    /\ UNCHANGED <<driver_vars, normalizer_vars, history_vars, i, attempted,
                   place_name, query_place, gdf_all, place_short, t, subset,
                   writes, dirs, result>>

\* Lines 25-29: the query raises; the extractor returns None.
QueryRaises ==
    /\ pc = "query"
    /\ ReturnToDriver(ReturnedNone)
    /\ UNCHANGED <<driver_vars, normalizer_vars, history_vars, attempted,
                   place_name, output_folder, query_place, gdf_all, place_short,
                   t, subset, writes, dirs, exc>>

\* Lines 26, 31-33: the query returns None or an empty collection; the
\* extractor returns None.
QueryEmpty ==
    /\ pc = "query"
    /\ \E gdf \in {f \in QueryReturns(query_place) : no_features(f)} :
          /\ retrieved' = gdf
          /\ gdf_all' = gdf
    /\ ReturnToDriver(ReturnedNone)
    /\ UNCHANGED <<driver_vars, normalizer_vars, pre_filter, pre_dedup, attempted,
                   place_name, output_folder, query_place, place_short,
                   t, subset, writes, dirs, exc>>

\* Line 26: the query returns a collection with records.
QueryFeatures ==
    /\ pc = "query"
    /\ \E gdf \in {f \in QueryReturns(query_place) : ~no_features(f)} :
          /\ retrieved' = gdf
          /\ gdf_all' = gdf
    /\ pc' = "to_crs"
    /\ UNCHANGED <<driver_vars, normalizer_vars, pre_filter, pre_dedup, i, attempted,
                   place_name, output_folder, query_place, place_short,
                   t, subset, writes, dirs, result, exc>>

\* Lines 36-39: reprojection, or pass when it raises.
Reproject ==
    /\ pc = "to_crs"
    /\ \E ok \in BOOLEAN : gdf_all' = IF ok THEN to_crs(gdf_all) ELSE gdf_all
    /\ pc' = "geometry_filter"
    /\ UNCHANGED <<driver_vars, normalizer_vars, history_vars, i, attempted,
                   place_name, output_folder, query_place, place_short,
                   t, subset, writes, dirs, result, exc>>

\* Lines 42-51: the geometry-type filter.
GeometryFilter ==
    /\ pc = "geometry_filter"
    /\ pre_filter' = gdf_all
    /\ gdf_all' = geometry_filter(gdf_all)
    /\ pc' = "coordinates"
    /\ UNCHANGED <<driver_vars, normalizer_vars, retrieved, pre_dedup, i, attempted,
                   place_name, output_folder, query_place, place_short,
                   t, subset, writes, dirs, result, exc>>

\* Lines 54-58: null geometries dropped, latitude and longitude added.
Coordinates ==
    /\ pc = "coordinates"
    /\ ~coordinates_raise(drop_null_geometry(gdf_all))
    /\ gdf_all' = add_coordinates(drop_null_geometry(gdf_all))
    /\ pc' = "drop_duplicates"
    /\ UNCHANGED <<driver_vars, normalizer_vars, history_vars, i, attempted,
                   place_name, output_folder, query_place, place_short,
                   t, subset, writes, dirs, result, exc>>

\* Line 57: geometry.y raises ValueError on a geometry that is no point;
\* nothing up to the top level catches it.
CoordinatesRaise ==
    /\ pc = "coordinates"
    /\ coordinates_raise(drop_null_geometry(gdf_all))
    /\ gdf_all' = drop_null_geometry(gdf_all)
    /\ exc' = "ValueError"
    /\ pc' = "raised"
    /\ UNCHANGED <<driver_vars, normalizer_vars, history_vars, i, attempted,
                   place_name, output_folder, query_place, place_short,
                   t, subset, writes, dirs, result>>

\* Lines 61-67: duplicates dropped, the base name derived.
DropDuplicates ==
    /\ pc = "drop_duplicates"
    /\ pre_dedup' = gdf_all
    /\ gdf_all' = drop_duplicates(gdf_all)
    /\ place_short' = clean_name(query_place)
    /\ pc' = "combined_geojson"
    /\ UNCHANGED <<driver_vars, normalizer_vars, retrieved, pre_filter, i, attempted,
                   place_name, output_folder, query_place,
                   t, subset, writes, dirs, result, exc>>

\* A write inside try/except: it is logged whether it succeeds or raises.
Write(kind, path, data, ok) ==
    writes' = Append(writes, [kind |-> kind, path |-> path, data |-> data, ok |-> ok])

combined_fname_geo == place_short \o S_all_amenities_geojson
combined_fname_csv == str_replace(combined_fname_geo, S_geojson, S_csv)

\* Lines 69-75: the combined geometry file.
WriteCombinedGeojson ==
    /\ pc = "combined_geojson"
    /\ \E ok \in WriteOutcomes :
          Write("combined_geojson", path_join(output_folder, combined_fname_geo),
                gdf_all, ok)
    /\ pc' = "combined_csv"
    /\ UNCHANGED <<driver_vars, normalizer_vars, history_vars, i, attempted,
                   place_name, output_folder, query_place, gdf_all, place_short,
                   t, subset, dirs, result, exc>>

\* Lines 77-83: the combined tabular file.
WriteCombinedCsv ==
    /\ pc = "combined_csv"
    /\ \E ok \in WriteOutcomes :
          Write("combined_csv", path_join(output_folder, combined_fname_csv),
                drop_geometry(gdf_all), ok)
    /\ t' = 1
    /\ pc' = "for_tag"
    /\ UNCHANGED <<driver_vars, normalizer_vars, history_vars, i, attempted,
                   place_name, output_folder, query_place, gdf_all, place_short,
                   subset, dirs, result, exc>>

fname_geojson(key) == place_short \o <<"_">> \o clean_name(key) \o S_geojson
fname_csv(key) == str_replace(fname_geojson(key), S_geojson, S_csv)

\* Lines 86-89: the column of the category is absent; continue.
SkipMissingTag ==
    /\ pc = "for_tag"
    /\ t <= Len(tags_dict)
    /\ tags_dict[t].key \notin gdf_all.columns
    /\ t' = t + 1
    /\ UNCHANGED <<driver_vars, normalizer_vars, history_vars, i, attempted,
                   place_name, output_folder, query_place, gdf_all, place_short,
                   subset, writes, dirs, result, exc, pc>>

\* The Subset taken from the collection as it was before drop_duplicates.
SelectSubsetBeforeDedup ==
    /\ pc = "for_tag"
    /\ t <= Len(tags_dict)
    /\ tags_dict[t].key \in gdf_all.columns
    /\ subset' = select_subset(pre_dedup, tags_dict[t].key, tags_dict[t].values)
    /\ IF subset'.rows = <<>>
       THEN t' = t + 1 /\ pc' = "for_tag"
       ELSE t' = t /\ pc' = "tag_geojson"
    /\ UNCHANGED <<driver_vars, normalizer_vars, history_vars, i, attempted,
                   place_name, output_folder, query_place, gdf_all, place_short,
                   writes, dirs, result, exc>>

\* Lines 92-103: the Subset is built; an empty one is skipped.
SelectSubset ==
    /\ pc = "for_tag"
    /\ t <= Len(tags_dict)
    /\ tags_dict[t].key \in gdf_all.columns
    /\ subset' = select_subset(gdf_all, tags_dict[t].key, tags_dict[t].values)
    /\ IF subset'.rows = <<>>
       THEN t' = t + 1 /\ pc' = "for_tag"
       ELSE t' = t /\ pc' = "tag_geojson"
    /\ UNCHANGED <<driver_vars, normalizer_vars, history_vars, i, attempted,
                   place_name, output_folder, query_place, gdf_all, place_short,
                   writes, dirs, result, exc>>

\* Lines 105-112: the geometry file of the category.
WriteTagGeojson ==
    /\ pc = "tag_geojson"
    /\ \E ok \in WriteOutcomes :
          Write("tag_geojson", path_join(output_folder, fname_geojson(tags_dict[t].key)),
                subset, ok)
    /\ pc' = "tag_csv"
    /\ UNCHANGED <<driver_vars, normalizer_vars, history_vars, i, attempted,
                   place_name, output_folder, query_place, gdf_all, place_short,
                   t, subset, dirs, result, exc>>

\* Lines 114-120: the tabular file of the category.
WriteTagCsv ==
    /\ pc = "tag_csv"
    /\ \E ok \in WriteOutcomes :
          Write("tag_csv", path_join(output_folder, fname_csv(tags_dict[t].key)),
                drop_geometry(subset), ok)
    /\ t' = t + 1
    /\ pc' = "for_tag"
    /\ UNCHANGED <<driver_vars, normalizer_vars, history_vars, i, attempted,
                   place_name, output_folder, query_place, gdf_all, place_short,
                   subset, dirs, result, exc>>

\* Line 122: return gdf_all.
ReturnFrame ==
    /\ pc = "for_tag"
    /\ t > Len(tags_dict)
    /\ ReturnToDriver(Returned(gdf_all))
    /\ UNCHANGED <<driver_vars, normalizer_vars, history_vars, attempted,
                   place_name, output_folder, query_place, gdf_all, place_short,
                   t, subset, writes, dirs, exc>>

Next ==
    \/ CallExtractor
    \/ DriverDone
    \/ MakedirsOk
    \/ MakedirsRaises
    \/ QueryRaises
    \/ QueryEmpty
    \/ QueryFeatures
    \/ Reproject
    \/ GeometryFilter
    \/ Coordinates
    \/ CoordinatesRaise
    \/ DropDuplicates
    \/ WriteCombinedGeojson
    \/ WriteCombinedCsv
    \/ SkipMissingTag
    \/ SelectSubset
    \/ WriteTagGeojson
    \/ WriteTagCsv
    \/ ReturnFrame

Spec == Init /\ [][Next]_vars

\* ---------------------------------------------------------------- claims

\* The current extractor call has returned to the driver.
Finished == pc \in {"for_prov", "done"} /\ result.kind # "pending"

\* The current extractor call has returned its collection.
ReturnedFrame == Finished /\ result.kind = "frame"

\* drop_duplicates has run in the current extractor call.
Deduplicated == pre_dedup # NoFrame

RowSet(gdf) == {gdf.rows[k] : k \in 1..Len(gdf.rows)}
Ids(gdf) == [k \in 1..Len(gdf.rows) |-> gdf.rows[k].osmid]
Indexes(gdf) == [k \in 1..Len(gdf.rows) |-> gdf.rows[k].index]
WriteSet == {writes[k] : k \in 1..Len(writes)}

\* A record meets a selector: any value for True, equality for a string,
\* membership for a list or a tuple, nothing else.
Matches(row, tag) ==
    \/ tag.values.type = "bool" /\ tag.values.flag /\ Cell(row, tag.key) # "NaN"
    \/ tag.values.type = "str" /\ Cell(row, tag.key) = tag.values.items[1]
    \/ /\ tag.values.type \in {"list", "tuple"}
       /\ Cell(row, tag.key) \in {tag.values.items[k] : k \in 1..Len(tag.values.items)}

\* The subset holds exactly the records of the collection that meet the
\* selector, each once.
SubsetIs(sub, gdf, tag) ==
    /\ RowSet(sub) = {r \in RowSet(gdf) : Matches(r, tag)}
    /\ Len(sub.rows) = Cardinality(RowSet(sub))
    /\ sub.columns = gdf.columns

\* C1: extract_for_provinces attempts every region of the list, in input
\* order, whatever the outcome of each region's extraction, an exception
\* raised out of the extractor included.
C1_EveryRegionAttempted ==
    /\ Len(attempted) <= Len(provinces_list)
    /\ attempted = SubSeq(provinces_list, 1, Len(attempted))
    /\ pc \in {"done", "raised"} => attempted = provinces_list

\* C2: when the query raises or returns a null or empty collection, the
\* extractor goes no further than the query, writes no file and returns None.
C2_NoOutputWithoutFeatures ==
    retrieved.rows = <<>> =>
        /\ writes = <<>>
        /\ result.kind \in {"pending", "None"}
        /\ pc \in {"for_prov", "makedirs", "query", "done", "raised"}
        /\ (pc \in {"for_prov", "done"} /\ attempted # <<>>) => result = ReturnedNone

\* The source returned a collection with columns and no record, and the
\* extractor returned None.
C2_Witness ==
    /\ Finished
    /\ result = ReturnedNone
    /\ retrieved.columns # {}
    /\ retrieved.rows = <<>>
    /\ output_folder \in dirs

\* The categories of the specification that are exported for a collection.
ExportedTags(gdf) ==
    {k \in 1..Len(tags_dict) :
        /\ tags_dict[k].key \in gdf.columns
        /\ \E r \in RowSet(gdf) : Matches(r, tags_dict[k])}

WriteAttempted(kind, path) == \E w \in WriteSet : w.kind = kind /\ w.path = path

\* Both combined writes and both writes of every exported category have been
\* attempted.
AllWritesAttempted ==
    /\ WriteAttempted("combined_geojson", path_join(output_folder, combined_fname_geo))
    /\ WriteAttempted("combined_csv", path_join(output_folder, combined_fname_csv))
    /\ \A k \in ExportedTags(gdf_all) :
          /\ WriteAttempted("tag_geojson",
                 path_join(output_folder, fname_geojson(tags_dict[k].key)))
          /\ WriteAttempted("tag_csv",
                 path_join(output_folder, fname_csv(tags_dict[k].key)))

\* C3: once retrieval has returned a collection with records, whichever
\* writes fail, every write is attempted, nothing propagates out of the
\* extractor and the extractor returns the collection.
C3_WritesIndependent ==
    (retrieved.rows # <<>> /\ pc \in {"for_prov", "done", "raised"}) =>
        /\ exc = "none"
        /\ result = Returned(gdf_all)
        /\ AllWritesAttempted

\* From the first export on, whichever writes fail, the call ends with every
\* write attempted and the collection returned.
WritesIndependentOnceExporting ==
    /\ pc \in {"combined_geojson", "combined_csv", "for_tag", "tag_geojson", "tag_csv"}
          => exc = "none"
    /\ (Deduplicated /\ pc \in {"for_prov", "done", "raised"}) =>
          /\ exc = "none"
          /\ result = Returned(gdf_all)
          /\ AllWritesAttempted

\* C4: with an identifier column, the collection exported and returned holds
\* one record per identifier of the collection before deduplication, the
\* first of that identifier, in input order; without the column the count
\* is unchanged.
C4_DedupKeepsFirst ==
    Deduplicated =>
        LET before == pre_dedup.rows
            after == gdf_all.rows
        IN  /\ IF S_osmid \in pre_dedup.columns
               THEN /\ \A k \in 1..Len(before) :
                          Cardinality({j \in 1..Len(after) :
                                          after[j].osmid = before[k].osmid}) = 1
                    /\ \A j \in 1..Len(after) :
                          \E k \in 1..Len(before) :
                              /\ before[k] = after[j]
                              /\ \A m \in 1..(k - 1) : before[m].osmid # after[j].osmid
                    /\ \A j \in 1..Len(after) : \A m \in 1..(j - 1) :
                          after[m].index < after[j].index
               ELSE Len(after) = Len(before)
            /\ \A w \in WriteSet :
                  /\ w.kind = "combined_geojson" => w.data = gdf_all
                  /\ w.kind = "combined_csv" => w.data = drop_geometry(gdf_all)
            /\ ReturnedFrame => result.frame = gdf_all

\* Three records with a repeated identifier went in, two came out and were
\* returned.
C4_Witness ==
    /\ ReturnedFrame
    /\ S_osmid \in pre_dedup.columns
    /\ Len(pre_dedup.rows) = Len(gdf_all.rows) + 1
    /\ Len(gdf_all.rows) >= 2
    /\ \E w \in WriteSet : w.kind = "combined_geojson" /\ w.ok

\* C5: the Subset of a category whose column is present holds exactly the
\* records of the deduplicated collection that meet the selector (none for
\* a selector of another type), and the two files of a category are written
\* exactly when its Subset is not empty.
C5_CategoryPartition ==
    /\ pc \in {"tag_geojson", "tag_csv"} => SubsetIs(subset, gdf_all, tags_dict[t])
    /\ (pc = "for_tag" /\ t > 1 /\ tags_dict[t - 1].key \in gdf_all.columns)
          => SubsetIs(subset, gdf_all, tags_dict[t - 1])
    /\ ReturnedFrame =>
          \A k \in 1..Len(tags_dict) :
              LET geo == path_join(output_folder, fname_geojson(tags_dict[k].key))
                  csv == path_join(output_folder, fname_csv(tags_dict[k].key))
              IN  /\ WriteAttempted("tag_geojson", geo) <=> k \in ExportedTags(gdf_all)
                  /\ WriteAttempted("tag_csv", csv) <=> k \in ExportedTags(gdf_all)
                  /\ \A w \in WriteSet :
                        /\ (w.kind = "tag_geojson" /\ w.path = geo)
                              => SubsetIs(w.data, gdf_all, tags_dict[k])
                        /\ (w.kind = "tag_csv" /\ w.path = csv)
                              => SubsetIs(w.data, drop_geometry(gdf_all), tags_dict[k])

\* A string selector kept some records of the collection and left out one
\* with another value, and both files of the category were written.
C5_Witness ==
    /\ ReturnedFrame
    /\ Len(tags_dict) = 1
    /\ tags_dict[1].values.type = "str"
    /\ subset.rows # <<>>
    /\ \E r \in RowSet(gdf_all) : r.amenity = "bar"
    /\ \E w \in WriteSet : w.kind = "tag_geojson" /\ w.ok
    /\ \E w \in WriteSet : w.kind = "tag_csv" /\ w.ok

\* C6: a retrieved collection with a point record is carried on with point
\* records only; one without a point record is carried on whole and
\* returned.
C6_GeometryFilter ==
    (retrieved.rows # <<>> /\ pc \in {"for_prov", "done", "raised"}) =>
        IF HasPoint(retrieved)
        THEN /\ ReturnedFrame
             /\ \A r \in RowSet(result.frame) : r.geometry = "Point"
        ELSE /\ exc = "none"
             /\ ReturnedFrame
             /\ RowSet(pre_dedup) = {r \in RowSet(retrieved) : r.geometry # "None"}

\* A retrieved collection with a point record is carried on with point
\* records only and returned.
PointsOnlyWhenAPoint ==
    (retrieved.rows # <<>> /\ HasPoint(retrieved)) =>
        /\ exc = "none"
        /\ pc \notin {"for_prov", "done", "to_crs", "geometry_filter"}
              => \A r \in RowSet(gdf_all) : r.geometry = "Point"
        /\ pc \in {"for_prov", "done"} => ReturnedFrame

\* C7: every file written for a region lies at {root}/{N}/{N}_all_amenities
\* or {root}/{N}/{N}_{C}, with extension geojson or csv, N the cleaned
\* region name, C a cleaned category key and the root as given.
C7_FilesystemLayout ==
    \A w \in WriteSet :
        LET N == clean_name(place_name)
            dir == output_root_folder \o <<"/">> \o N \o <<"/">>
            ext == IF w.kind \in {"combined_geojson", "tag_geojson"}
                   THEN S_geojson ELSE S_csv
            all == <<"_", "a", "l", "l", "_", "a", "m", "e", "n", "i", "t", "i", "e", "s">>
        IN  IF w.kind \in {"combined_geojson", "combined_csv"}
            THEN w.path = dir \o N \o all \o ext
            ELSE \E k \in 1..Len(tags_dict) :
                    w.path = dir \o N \o <<"_">> \o clean_name(tags_dict[k].key) \o ext

\* Scenario A is running: "Testville", {"amenity": True}, the three records.
InScenarioA ==
    /\ place_name = Testville
    /\ tags_dict = <<[key |-> S_amenity, values |-> SelBool(TRUE)]>>
    /\ retrieved = ScenarioA

\* C9 as stated: in scenario A the deduplicated collection holds the records
\* with identifiers 1 and 2 and the amenity Subset only the one with
\* identifier 1.
C9_ScenarioA_AsStated ==
    (InScenarioA /\ pc \in {"tag_geojson", "tag_csv"}) =>
        /\ Ids(gdf_all) = <<1, 2>>
        /\ Ids(subset) = <<1>>

\* C9: in scenario A the deduplicated collection holds the first record of
\* identifier 1 and the record of identifier 2, and the amenity Subset that
\* is exported holds both of them.
C9_ScenarioA ==
    InScenarioA =>
        /\ Deduplicated => Ids(gdf_all) = <<1, 2>> /\ Indexes(gdf_all) = <<1, 3>>
        /\ pc \in {"tag_geojson", "tag_csv"} => subset = gdf_all
        /\ \A w \in WriteSet :
              w.kind \in {"tag_geojson", "tag_csv"}
                  => Ids(w.data) = <<1, 2>> /\ Indexes(w.data) = <<1, 3>>
        /\ ReturnedFrame =>
              /\ WriteAttempted("tag_geojson",
                     path_join(output_folder, fname_geojson(S_amenity)))
              /\ result.frame = gdf_all

\* Scenario A has run to its end and the amenity files were written.
C9_Witness ==
    /\ InScenarioA
    /\ ReturnedFrame
    /\ \E w \in WriteSet : w.kind = "tag_geojson" /\ w.ok
    /\ \E w \in WriteSet : w.kind = "tag_csv" /\ w.ok

\* A Subset has just been built for the category before position t.
SubsetBuilt ==
    \/ pc \in {"tag_geojson", "tag_csv"}
    \/ pc = "for_tag" /\ t > 1 /\ tags_dict[t - 1].key \in gdf_all.columns

\* C10 as stated: every Subset that is exported leaves out at least one
\* record of the deduplicated collection.
C10_StrictSubset_AsStated ==
    pc \in {"tag_geojson", "tag_csv"} =>
        /\ RowSet(subset) \subseteq RowSet(gdf_all)
        /\ RowSet(subset) # RowSet(gdf_all)

\* C10: every Subset that is built or exported holds records of the
\* deduplicated collection only; it may hold all of them.
C10_SubsetOfCollection ==
    /\ SubsetBuilt => RowSet(subset) \subseteq RowSet(gdf_all)
    /\ \A w \in WriteSet :
          w.kind = "tag_geojson" => RowSet(w.data) \subseteq RowSet(gdf_all)

\* A Subset equal to a deduplicated collection that lost a duplicate has
\* been exported.
C10_Witness ==
    /\ pc = "tag_csv"
    /\ Len(pre_dedup.rows) > Len(gdf_all.rows)
    /\ RowSet(subset) = RowSet(gdf_all)
    /\ \E w \in WriteSet : w.kind = "tag_geojson" /\ w.data = subset

\* ------------------------------------------------- the Name Normalizer

InitNormalizer ==
    /\ name_in \in StringsUpTo(MaxLen)
    /\ name_out = <<>>
    /\ name_twice = <<>>
    /\ pc = "clean_name"
    /\ provinces_list = <<>>
    /\ tags_dict = <<>>
    /\ output_root_folder = <<>>
    /\ disk = "healthy"
    /\ i = 1
    /\ attempted = <<>>
    /\ place_name = <<>>
    /\ output_folder = <<>>
    /\ query_place = <<>>
    /\ gdf_all = NoFrame
    /\ place_short = <<>>
    /\ t = 1
    /\ subset = NoFrame
    /\ retrieved = NoFrame
    /\ pre_filter = NoFrame
    /\ pre_dedup = NoFrame
    /\ writes = <<>>
    /\ dirs = {}
    /\ result = Pending
    /\ exc = "none"

Normalize ==
    /\ pc = "clean_name"
    /\ name_out' = clean_name(name_in)
    /\ pc' = "clean_name_again"
    /\ UNCHANGED <<name_in, name_twice, pipeline_vars>>

Renormalize ==
    /\ pc = "clean_name_again"
    /\ name_twice' = clean_name(name_out)
    /\ pc' = "cleaned"
    /\ UNCHANGED <<name_in, name_out, pipeline_vars>>

NextNormalizer == Normalize \/ Renormalize

SpecNormalizer == InitNormalizer /\ [][NextNormalizer]_vars

Contains(s, c) == \E k \in 1..Len(s) : s[k] = c

\* C8: the output of clean_name contains no comma and no path separator,
\* and applying clean_name to its own output changes nothing.
C8_NormalizerSafeIdempotent ==
    /\ pc \in {"clean_name_again", "cleaned"}
          => ~Contains(name_out, ",") /\ ~Contains(name_out, "/")
    /\ pc = "cleaned" => name_twice = name_out

\* A name with a comma, a separator and surrounding blanks has been
\* normalized twice.
C8_Witness ==
    /\ pc = "cleaned"
    /\ Contains(name_in, ",")
    /\ Contains(name_in, "/")
    /\ Contains(name_in, " ")
    /\ name_out # name_in

====
